---- MODULE Spec2Model ----
(***************************************************************************)
(* jaffle_shop_dlt: the paginated fetcher (get_paginated_data), the        *)
(* resources and sources that wrap it, and the staged run harness          *)
(* (run_pipeline) of the three pipeline files:                             *)
(*   "basic"     src/jaffle_shop_pipeline.py                               *)
(*   "deploy"    src/deploy_pipeline.py                                    *)
(*   "optimized" src/jaffle_shop_pipeline_optimized.py                     *)
(* The HTTP server, the clock and the dlt framework are the environment:   *)
(* the server is a finite collection per endpoint with an optional failing *)
(* page, the clock ticks between any two steps, the framework pulls the    *)
(* resource generators of the source in any interleaving and may raise in  *)
(* normalize and load.                                                     *)
(***************************************************************************)
EXTENDS Integers, Sequences, FiniteSets, TLC

VARIABLES
    variant,          \* which of the three files is run
    numPages,         \* server: number of non-empty pages of each endpoint
    tail,             \* server: body served after the last non-empty page
    failAt,           \* server: page answered with a failing response (0: none)
    gpc,              \* generator position of each resource
    page,             \* get_paginated_data: local `page` of each generator
    requests,         \* GET requests each generator has issued, in order
    yielded,          \* pages each generator has yielded, in order
    pulls,            \* number of times the consumer has resumed each generator
    pc,               \* position of the module's main code
    now,              \* time.time()
    gap,              \* clock ticks that fell outside the three stage calls
    locals,           \* run_pipeline: extract_start, extract_time, ...
    stages,           \* stats["stages"]
    total,            \* stats["total_time_seconds"], <<>> while unset
    logged,           \* the summary block has been logged
    events            \* calls, returns and raises of the framework's entry points

vars == <<variant, numPages, tail, failAt, gpc, page, requests, yielded, pulls,
          pc, now, gap, locals, stages, total, logged, events>>

fetcherVars == <<gpc, page, requests, yielded, pulls>>
serverVars == <<numPages, tail, failAt>>
harnessVars == <<locals, stages, total, logged>>

(* ------------------------------ bounds -------------------------------- *)
MaxPages == 2
MaxTime == 2

(* ----------------------------- constants ------------------------------ *)
FirstPage == 1

Variants == {"basic", "deploy", "optimized"}
Resources == {"get_customers", "get_orders"}
Endpoints == {"customers", "orders"}

\* get_customers iterates get_paginated_data('customers'), get_orders 'orders'
endpoint(r) == IF r = "get_customers" THEN "customers" ELSE "orders"

\* the @dlt.resource functions each file defines
Declared(v) == IF v = "deploy" THEN {"get_customers"} ELSE {"get_customers", "get_orders"}

\* what jaffle_shop_source() returns in each file
jaffle_shop_source(v) ==
    IF v = "optimized" THEN {"get_customers", "get_orders"} ELSE {"get_customers"}

\* the files that define run_pipeline
HasRunPipeline(v) == v \in {"basic", "optimized"}

\* run_pipeline of the optimized file calls pipeline.load(), the basic one does not
CallsLoad(v) == v = "optimized"

(* ------------------------------ server -------------------------------- *)
ArrayBody(n) == [kind |-> "array", n |-> n]
NullBody == [kind |-> "null", n |-> 0]
MalformedBody == [kind |-> "malformed", n |-> 0]
TailBodies == {ArrayBody(0), NullBody}

\* page p of a collection holds p records, so a body identifies its page
ServerBody(e, p) == IF p <= numPages[e] THEN ArrayBody(p) ELSE tail[e]

FailResponses ==
    { [status |-> 404, body |-> MalformedBody],
      [status |-> 500, body |-> ArrayBody(0)],
      [status |-> 200, body |-> MalformedBody] }

\* requests.get(url, params={'page': p}): the responses the server may give
Responses(e, p) ==
    IF p = failAt[e] THEN FailResponses
    ELSE { [status |-> 200, body |-> ServerBody(e, p)] }

(* ------------------------- get_paginated_data ------------------------- *)
\* response.raise_for_status() raises HTTPError on 4xx and 5xx
raise_for_status_omitted(status) == FALSE
raise_for_status(status) == status >= 400 /\ status < 600

\* response.json() raises on a body that is not JSON
json_raises(body) == body.kind = "malformed"

\* response.json(): a JSON array decodes to a list, null to None
json(body) ==
    IF body.kind = "array" THEN [kind |-> "list", len |-> body.n]
    ELSE [kind |-> "None", len |-> 0]

\* Python truth value of `not data`
not_data(data) == data.kind = "None" \/ data.len = 0

\* `if not data or len(data) == 0: break`
IsLastPageNoBreak(data) == FALSE
IsLastPage(data) == not_data(data) \/ data.len = 0

\* `page = 1`
InitialPageZero == FirstPage - 1
InitialPage == FirstPage

\* `page += 1`
NextPageSkips(p) == p + 2
NextPage(p) == p + 1

\* `page` is a local of each generator
SetPageShared(pg, r, p) == [x \in DOMAIN pg |-> p]
SetPage(pg, r, p) == [pg EXCEPT ![r] = p]

\* the HTTP errors and decode errors that end the generator
ResponseRaises(resp) == raise_for_status(resp.status) \/ json_raises(resp.body)

Last(s) == s[Len(s)]

\* no generator requests beyond the page after the largest collection
MaxRequest == MaxPages + 1

\* one pass of the loop body up to the yield: request page p, check, decode, yield
Fetch(r, p, resp) ==
    /\ requests' = [requests EXCEPT ![r] =
           Append(@, [endpoint |-> endpoint(r), page |-> p, status |-> resp.status])]
    /\ page' = SetPage(page, r, p)
    /\ IF ResponseRaises(resp)
       THEN /\ gpc' = [gpc EXCEPT ![r] = "failed"]
            /\ UNCHANGED yielded
       ELSE /\ gpc' = [gpc EXCEPT ![r] = "suspended"]
            /\ yielded' = [yielded EXCEPT ![r] =
                   Append(@, [page |-> p, data |-> json(resp.body)])]

\* the consumer resumes generator r: it runs to its next yield, its end or an error
get_paginated_data(r) ==
    /\ gpc[r] \in {"unstarted", "suspended"}
    /\ pulls' = [pulls EXCEPT ![r] = @ + 1]
    /\ IF gpc[r] = "unstarted"
       THEN \E resp \in Responses(endpoint(r), InitialPage) :
                Fetch(r, InitialPage, resp)
       ELSE IF IsLastPage(Last(yielded[r]).data)
            THEN /\ gpc' = [gpc EXCEPT ![r] = "done"]
                 /\ UNCHANGED <<page, requests, yielded>>
            ELSE /\ NextPage(page[r]) <= MaxRequest
                 /\ \E resp \in Responses(endpoint(r), NextPage(page[r])) :
                        Fetch(r, NextPage(page[r]), resp)

(* ---------------------------- the framework --------------------------- *)
\* pipeline.extract / pipeline.run iterate the generators of the source
Pull(r) ==
    /\ pc = "extracting"
    /\ r \in jaffle_shop_source(variant)
    /\ get_paginated_data(r)
    /\ UNCHANGED <<variant, serverVars, pc, now, gap, harnessVars, events>>

Exhausted == \A r \in jaffle_shop_source(variant) : gpc[r] = "done"
Raised == \E r \in jaffle_shop_source(variant) : gpc[r] = "failed"

\* time passes; only run_pipeline reads the clock
Tick ==
    /\ HasRunPipeline(variant)
    /\ pc \notin {"done", "failed"}
    /\ now < MaxTime
    /\ now' = now + 1
    /\ gap' = IF pc \in {"init", "extracted", "normalized", "loaded"} THEN gap + 1 ELSE gap
    /\ UNCHANGED <<variant, serverVars, fetcherVars, pc, harnessVars, events>>

(* ---------------------------- run_pipeline ---------------------------- *)
\* `extract_start = time.time()` and the call of pipeline.extract
extract_call ==
    /\ HasRunPipeline(variant)
    /\ pc = "init"
    /\ pc' = "extracting"
    /\ locals' = locals @@ ("extract_start" :> now)
    /\ events' = Append(events, "extract.call")
    /\ UNCHANGED <<variant, serverVars, fetcherVars, now, gap, stages, total, logged>>

\* pipeline.extract returns; `extract_time = time.time() - extract_start`
extract_return ==
    /\ HasRunPipeline(variant)
    /\ pc = "extracting"
    /\ Exhausted
    /\ pc' = "extracted"
    /\ locals' = locals @@ ("extract_time" :> (now - locals["extract_start"]))
    /\ stages' = stages @@ ("extract" :> (now - locals["extract_start"]))
    /\ events' = Append(events, "extract.ret")
    /\ UNCHANGED <<variant, serverVars, fetcherVars, now, gap, total, logged>>

\* an error of a generator leaves pipeline.extract and run_pipeline
extract_raise ==
    /\ HasRunPipeline(variant)
    /\ pc = "extracting"
    /\ Raised
    /\ pc' = "failed"
    /\ events' = Append(events, "extract.raise")
    /\ UNCHANGED <<variant, serverVars, fetcherVars, now, gap, harnessVars>>

normalize_call_early ==
    /\ HasRunPipeline(variant)
    /\ pc \in {"extracting", "extracted"}
    /\ pc' = "normalizing"
    /\ locals' = locals @@ ("normalize_start" :> now)
    /\ events' = Append(events, "normalize.call")
    /\ UNCHANGED <<variant, serverVars, fetcherVars, now, gap, stages, total, logged>>

\* `normalize_start = time.time()` and the call of pipeline.normalize
normalize_call ==
    /\ HasRunPipeline(variant)
    /\ pc = "extracted"
    /\ pc' = "normalizing"
    /\ locals' = locals @@ ("normalize_start" :> now)
    /\ events' = Append(events, "normalize.call")
    /\ UNCHANGED <<variant, serverVars, fetcherVars, now, gap, stages, total, logged>>

normalize_return ==
    /\ HasRunPipeline(variant)
    /\ pc = "normalizing"
    /\ pc' = "normalized"
    /\ locals' = locals @@ ("normalize_time" :> (now - locals["normalize_start"]))
    /\ stages' = stages @@ ("normalize" :> (now - locals["normalize_start"]))
    /\ events' = Append(events, "normalize.ret")
    /\ UNCHANGED <<variant, serverVars, fetcherVars, now, gap, total, logged>>

normalize_raise_swallowed ==
    /\ HasRunPipeline(variant)
    /\ pc = "normalizing"
    /\ pc' = "normalized"
    /\ locals' = locals @@ ("normalize_time" :> (now - locals["normalize_start"]))
    /\ stages' = stages @@ ("normalize" :> (now - locals["normalize_start"]))
    /\ events' = Append(events, "normalize.raise")
    /\ UNCHANGED <<variant, serverVars, fetcherVars, now, gap, total, logged>>

\* pipeline.normalize raises: nothing in run_pipeline catches it
normalize_raise ==
    /\ HasRunPipeline(variant)
    /\ pc = "normalizing"
    /\ pc' = "failed"
    /\ events' = Append(events, "normalize.raise")
    /\ UNCHANGED <<variant, serverVars, fetcherVars, now, gap, harnessVars>>

\* `load_start = time.time()`, followed in the optimized file by pipeline.load()
load_call ==
    /\ HasRunPipeline(variant)
    /\ pc = "normalized"
    /\ pc' = "loading"
    /\ locals' = locals @@ ("load_start" :> now)
    /\ events' = IF CallsLoad(variant) THEN Append(events, "load.call") ELSE events
    /\ UNCHANGED <<variant, serverVars, fetcherVars, now, gap, stages, total, logged>>

\* `load_time = time.time() - load_start`
load_return ==
    /\ HasRunPipeline(variant)
    /\ pc = "loading"
    /\ pc' = "loaded"
    /\ locals' = locals @@ ("load_time" :> (now - locals["load_start"]))
    /\ stages' = stages @@ ("load" :> (now - locals["load_start"]))
    /\ events' = IF CallsLoad(variant) THEN Append(events, "load.ret") ELSE events
    /\ UNCHANGED <<variant, serverVars, fetcherVars, now, gap, total, logged>>

\* pipeline.load raises
load_raise ==
    /\ HasRunPipeline(variant)
    /\ CallsLoad(variant)
    /\ pc = "loading"
    /\ pc' = "failed"
    /\ events' = Append(events, "load.raise")
    /\ UNCHANGED <<variant, serverVars, fetcherVars, now, gap, harnessVars>>

\* `extract_time + normalize_time + load_time`
TotalTimeWithoutLoad(e, n, l) == e + n
TotalTime(e, n, l) == e + n + l

\* stats["total_time_seconds"] is set and the summary is logged
summary ==
    /\ HasRunPipeline(variant)
    /\ pc = "loaded"
    /\ pc' = "done"
    /\ total' = << TotalTime(locals["extract_time"], locals["normalize_time"],
                             locals["load_time"]) >>
    /\ logged' = TRUE
    /\ UNCHANGED <<variant, serverVars, fetcherVars, now, gap, locals, stages, events>>

(* ------------------------- deploy_pipeline main ----------------------- *)
\* pipeline.run(jaffle_shop_source()) extracts, normalizes and loads
deploy_run_call ==
    /\ variant = "deploy"
    /\ pc = "init"
    /\ pc' = "extracting"
    /\ events' = Append(events, "run.call")
    /\ UNCHANGED <<variant, serverVars, fetcherVars, now, gap, harnessVars>>

deploy_run_extracted ==
    /\ variant = "deploy"
    /\ pc = "extracting"
    /\ Exhausted
    /\ pc' = "deploy_post"
    /\ UNCHANGED <<variant, serverVars, fetcherVars, now, gap, harnessVars, events>>

deploy_run_return ==
    /\ variant = "deploy"
    /\ pc = "deploy_post"
    /\ pc' = "done"
    /\ events' = Append(events, "run.ret")
    /\ UNCHANGED <<variant, serverVars, fetcherVars, now, gap, harnessVars>>

deploy_run_raise ==
    /\ variant = "deploy"
    /\ \/ pc = "extracting" /\ Raised
       \/ pc = "deploy_post"
    /\ pc' = "failed"
    /\ events' = Append(events, "run.raise")
    /\ UNCHANGED <<variant, serverVars, fetcherVars, now, gap, harnessVars>>

(* --------------------------- specification ---------------------------- *)
Init ==
    /\ variant \in Variants
    /\ numPages \in [Endpoints -> 0 .. MaxPages]
    /\ tail \in [Endpoints -> TailBodies]
    /\ failAt \in [Endpoints -> 0 .. MaxPages + 1]
    /\ \A e \in Endpoints : failAt[e] <= numPages[e] + 1
    /\ gpc = [r \in Resources |-> "unstarted"]
    /\ page = [r \in Resources |-> 0]
    /\ requests = [r \in Resources |-> << >>]
    /\ yielded = [r \in Resources |-> << >>]
    /\ pulls = [r \in Resources |-> 0]
    /\ pc = "init"
    /\ now = 0
    /\ gap = 0
    /\ locals = << >>
    /\ stages = << >>
    /\ total = << >>
    /\ logged = FALSE
    /\ events = << >>

Next ==
    \/ \E r \in Resources : Pull(r)
    \/ Tick
    \/ extract_call
    \/ extract_return
    \/ extract_raise
    \/ normalize_call
    \/ normalize_return
    \/ normalize_raise
    \/ load_call
    \/ load_return
    \/ load_raise
    \/ summary
    \/ deploy_run_call
    \/ deploy_run_extracted
    \/ deploy_run_return
    \/ deploy_run_raise

Spec == Init /\ [][Next]_vars

\* the framework's extract loop keeps resuming every generator that is not finished
FairSpec == Spec /\ \A r \in Resources : WF_vars(Pull(r))

(* ------------------------------ the claims ---------------------------- *)
\* a page that is empty or falsy, as the specification words it
Empty(data) == data.kind = "None" \/ data.len = 0

\* the page the server serves at position p of endpoint e, decoded
ServedPage(e, p) == json(ServerBody(e, p))

\* the first empty page of a collection
FirstEmptyPage(e) ==
    CHOOSE k \in 1 .. MaxPages + 1 :
        /\ Empty(ServedPage(e, k))
        /\ \A j \in 1 .. k - 1 : ~Empty(ServedPage(e, j))

AllSucceed(e) == failAt[e] = 0

\* a status outside 2xx
NonSuccess(status) == status < 200 \/ status >= 300

Count(ev) == Cardinality({i \in 1 .. Len(events) : events[i] = ev})
Pos(ev) == IF Count(ev) = 0 THEN 0 ELSE CHOOSE i \in 1 .. Len(events) : events[i] = ev
Before(a, b) == Pos(a) > 0 /\ Pos(b) > 0 /\ Pos(a) < Pos(b)

\* C1: every generator requests page 1 first and then exactly the previous page
\* plus 1, against its own endpoint, and yields the served pages in request order.
C1_RequestsInPageOrder ==
    \A r \in Resources :
        /\ \A i \in 1 .. Len(requests[r]) :
               /\ requests[r][i].page = i
               /\ requests[r][i].endpoint = endpoint(r)
        /\ Len(yielded[r]) <= Len(requests[r])
        /\ \A i \in 1 .. Len(yielded[r]) :
               /\ yielded[r][i].page = requests[r][i].page
               /\ yielded[r][i].data = ServedPage(endpoint(r), i)

C1_Witness ==
    \E r \in Resources : Len(requests[r]) >= 3 /\ Len(yielded[r]) >= 3

\* C2: when every response succeeds and page K is the first empty page, no page
\* beyond K is ever requested, and a finished generator has requested exactly
\* pages 1..K and yielded K pages, the last one empty and the earlier ones not.
C2_StopsAtFirstEmptyPage ==
    \A r \in Resources :
        AllSucceed(endpoint(r)) =>
            LET K == FirstEmptyPage(endpoint(r)) IN
            /\ \A i \in 1 .. Len(requests[r]) : requests[r][i].page <= K
            /\ Len(requests[r]) <= K
            /\ gpc[r] = "done" =>
                   /\ Len(requests[r]) = K
                   /\ \A i \in 1 .. K : requests[r][i].page = i
                   /\ Len(yielded[r]) = K
                   /\ Empty(yielded[r][K].data)
                   /\ \A i \in 1 .. K - 1 : ~Empty(yielded[r][i].data)

C2_Witness ==
    \E r \in Resources :
        /\ AllSucceed(endpoint(r))
        /\ gpc[r] = "done"
        /\ Len(yielded[r]) = 3
        /\ ~Empty(yielded[r][1].data) /\ ~Empty(yielded[r][2].data)

\* C3: a request answered with a non-success status is the generator's last
\* request, its page is not yielded, the generator has failed with pages
\* 1..N-1 yielded, and a failed generator requests and yields nothing more.
C3_FailedRequestIsLast ==
    \A r \in Resources :
        \A i \in 1 .. Len(requests[r]) :
            NonSuccess(requests[r][i].status) =>
                /\ i = Len(requests[r])
                /\ gpc[r] = "failed"
                /\ Len(yielded[r]) = i - 1
                /\ \A j \in 1 .. i - 1 : yielded[r][j].page = j

C3_FailedIsFinal ==
    \A r \in Resources :
        gpc[r] = "failed" =>
            /\ gpc'[r] = "failed"
            /\ requests'[r] = requests[r]
            /\ yielded'[r] = yielded[r]

Stage(p) ==
    CASE p = "init" -> "INIT"
      [] p \in {"extracting", "extracted"} -> "EXTRACTING"
      [] p \in {"normalizing", "normalized"} -> "NORMALIZING"
      [] p \in {"loading", "loaded"} -> "LOADING"
      [] p = "done" -> "DONE"
      [] OTHER -> "FAILED"

ForwardPath ==
    { <<"INIT", "EXTRACTING">>, <<"EXTRACTING", "NORMALIZING">>,
      <<"NORMALIZING", "LOADING">>, <<"LOADING", "DONE">>,
      <<"EXTRACTING", "FAILED">>, <<"NORMALIZING", "FAILED">>, <<"LOADING", "FAILED">> }

C4_StageStep ==
    HasRunPipeline(variant) =>
        \/ Stage(pc') = Stage(pc)
        \/ <<Stage(pc), Stage(pc')>> \in ForwardPath

C4_StageOrder ==
    HasRunPipeline(variant) =>
        /\ \A ev \in {"extract.call", "normalize.call", "load.call"} : Count(ev) <= 1
        /\ Stage(pc) \in {"NORMALIZING", "LOADING", "DONE"} =>
               Before("extract.call", "extract.ret")
        /\ Count("normalize.call") = 1 => Before("extract.ret", "normalize.call")
        /\ Stage(pc) \in {"LOADING", "DONE"} =>
               Before("normalize.call", "normalize.ret")
        /\ Count("load.call") = 1 => Before("normalize.ret", "load.call")

\* C4: the stages of run_pipeline follow the single forward path, each entered
\* once and only after the stage before it has returned.
C4_SingleForwardPath == [](C4_StageOrder) /\ [][C4_StageStep]_vars

C4_Witness ==
    /\ HasRunPipeline(variant)
    /\ pc = "done"
    /\ Before("extract.ret", "normalize.call")
    /\ Before("normalize.ret", "load.call")

\* C5: a run of run_pipeline that reaches DONE has called the framework's load
\* exactly once, after normalize returned, and has recorded a load duration.
C5_LoadCalledOnce ==
    (HasRunPipeline(variant) /\ pc = "done") =>
        /\ Count("load.call") = 1
        /\ Count("load.ret") = 1
        /\ Before("normalize.ret", "load.call")
        /\ Before("load.call", "load.ret")
        /\ "load" \in DOMAIN stages

\* C6: a stage that raises is the last thing run_pipeline does: the run is in
\* FAILED for good, the stage was called once, only the stages before it have a
\* recorded duration, and the total and the summary are never produced.
StagesBefore(ev) ==
    CASE ev = "extract.raise" -> {}
      [] ev = "normalize.raise" -> {"extract"}
      [] ev = "load.raise" -> {"extract", "normalize"}

CallOf(ev) ==
    CASE ev = "extract.raise" -> "extract.call"
      [] ev = "normalize.raise" -> "normalize.call"
      [] ev = "load.raise" -> "load.call"

C6_RaiseIsLast ==
    HasRunPipeline(variant) =>
        \A i \in 1 .. Len(events) :
            events[i] \in {"extract.raise", "normalize.raise", "load.raise"} =>
                /\ i = Len(events)
                /\ pc = "failed"
                /\ Count(CallOf(events[i])) = 1
                /\ DOMAIN stages = StagesBefore(events[i])
                /\ total = << >>
                /\ ~logged

C6_FailedIsTerminal == pc = "failed" => UNCHANGED vars

\* C6: a failing stage sends run_pipeline to FAILED for good, with no retry, no
\* later stage, no duration for the failed stage, no total and no summary.
C6_FailFast == [](C6_RaiseIsLast) /\ [][C6_FailedIsTerminal]_vars

C6_Witness ==
    /\ HasRunPipeline(variant)
    /\ pc = "failed"
    /\ Last(events) = "load.raise"
    /\ DOMAIN stages = {"extract", "normalize"}

\* C7: at the end of a successful run the total is the sum of the three recorded
\* stage durations, which is the elapsed time less the time between stage calls.
C7_TotalIsSumOfStages ==
    (HasRunPipeline(variant) /\ pc = "done") =>
        /\ DOMAIN stages = {"extract", "normalize", "load"}
        /\ total = << stages["extract"] + stages["normalize"] + stages["load"] >>
        /\ total[1] + gap = now

C7_Witness ==
    /\ HasRunPipeline(variant)
    /\ pc = "done"
    /\ gap > 0
    /\ stages["load"] > 0
    /\ total[1] < now

\* C8: once extract has returned, the generator of every resource the file
\* declares has been started and consumed through its terminal empty page.
ExtractReturned ==
    \/ Count("extract.ret") = 1
    \/ variant = "deploy" /\ pc \in {"deploy_post", "done"}

C8_EveryDeclaredConsumed ==
    ExtractReturned =>
        \A r \in Declared(variant) :
            /\ gpc[r] = "done"
            /\ Len(yielded[r]) >= 1
            /\ Empty(Last(yielded[r]).data)

\* C9: generators of different resources are independent: a step of one leaves
\* the other's counter, requests and yielded pages unchanged, and each requests
\* 1, 2, 3, ... from its own endpoint up to its own first empty page.
FetcherState(r) == <<gpc[r], page[r], requests[r], yielded[r], pulls[r]>>

C9_OwnSequence ==
    \A r \in Resources :
        /\ \A i \in 1 .. Len(requests[r]) :
               requests[r][i].page = i /\ requests[r][i].endpoint = endpoint(r)
        /\ gpc[r] \in {"suspended", "failed"} => page[r] = Len(requests[r])
        /\ AllSucceed(endpoint(r)) => Len(requests[r]) <= FirstEmptyPage(endpoint(r))

C9_StepIsLocal ==
    \A r \in Resources :
        FetcherState(r)' # FetcherState(r) =>
            \A o \in Resources \ {r} : FetcherState(o)' = FetcherState(o)

\* C9: under any interleaving each generator keeps its own page sequence and a
\* step of one generator changes nothing of the other.
C9_NoSharedState == [](C9_OwnSequence) /\ [][C9_StepIsLocal]_vars

C9_Witness ==
    /\ variant = "optimized"
    /\ gpc["get_orders"] = "done" /\ page["get_orders"] = 1
    /\ gpc["get_customers"] = "suspended" /\ page["get_customers"] = 3

\* C10: when every response succeeds, a consumer that keeps pulling sees every
\* generator end; and a page is requested only by a pull, one at a time, after
\* the page before it has been yielded.
C10_Lazy ==
    \A r \in Resources :
        /\ Len(requests[r]) <= pulls[r]
        /\ Len(requests[r]) <= Len(yielded[r]) + 1

C10_RequestOnPull ==
    \A r \in Resources :
        requests'[r] # requests[r] =>
            /\ pulls'[r] = pulls[r] + 1
            /\ Len(requests'[r]) = Len(requests[r]) + 1
            /\ Len(yielded[r]) = Len(requests[r])

C10_Terminates ==
    \A r \in Resources :
        (/\ pc = "extracting"
         /\ r \in jaffle_shop_source(variant)
         /\ \A s \in jaffle_shop_source(variant) : AllSucceed(endpoint(s)))
            ~> (gpc[r] = "done")

\* C10: the generator is lazy (one request per pull, after the previous page was
\* yielded) and, when every response succeeds, it ends under a pulling consumer.
C10_LazyAndFinite == [](C10_Lazy) /\ [][C10_RequestOnPull]_vars /\ C10_Terminates

C10_Witness ==
    \E r \in Resources :
        /\ gpc[r] = "done"
        /\ AllSucceed(endpoint(r))
        /\ pulls[r] = 4
        /\ Len(requests[r]) = 3

====
